---- MODULE Spec2Model ----
(***************************************************************************)
(* examples/vlanhost.py: VLANHost.config (the VLAN retagging of a host's   *)
(* default interface) and VLANStarTopo.build (the star topology with k     *)
(* VLAN groups of n hosts and n untagged hosts).                           *)
(*                                                                         *)
(* Interface names are sequences of components: <<"h1", "eth0">> is the    *)
(* name h1-eth0 and <<"h1", "eth0", 100>> the name h1-eth0.100, so that    *)
(* f'{intf}.{vlan}' is Append(name, vlan).  Host names of the topology are *)
(* sequences of characters, built digit by digit.  Python's None is the    *)
(* empty sequence and a present value v is <<v>>.                          *)
(***************************************************************************)
EXTENDS Integers, Sequences, FiniteSets, TLC

VARIABLES
    pc,          \* pc[h]: the line of config() host h is at ("idle": no call)
    ns,          \* ns[h]: the host's network namespace, name -> device
    intf,        \* intf[h][o]: the Intf object o of host h (its name, its ip)
    nameToIntf,  \* nameToIntf[h]: the host's table, name -> Intf object
    log,         \* log[h]: the commands self.cmd() ran, with their outcome
    result,      \* result[h]: how the last call of config() ended
    cur,         \* cur[h]: the locals of the running call
    hist,        \* hist[h]: the calls made (parameters, environment faults)
    calls,       \* calls begun, over all hosts
    faults,      \* commands the environment made fail, over all hosts
    tpc,         \* build(): the line it is at
    targs,       \* build(): its arguments k, n, vlanBase
    ti,          \* build(): loop variable i
    tj,          \* build(): loop variable j
    thosts,      \* Topo: host name -> options
    tswitches,   \* Topo: switch names
    tlinks       \* Topo: the links, in the order added

hostVars == <<pc, ns, intf, nameToIntf, log, result, cur, hist, calls, faults>>
topoVars == <<tpc, targs, ti, tj, thosts, tswitches, tlinks>>
vars == <<hostVars, topoVars>>

(* ------------------------------ bounds --------------------------------- *)
NumHosts == 2
MaxCalls == 2
MaxFaults == 1
MaxK == 2
MaxN == 2

HostNames == <<"h1", "h2", "h3", "h4">>
Hosts == {HostNames[i] : i \in 1..NumHosts}
VlanIds == {100, 101}
\* the IP/prefix of each host (its 'ip' parameter), in the order of HostNames
HostIPs == <<"10.0.0.1/8", "10.0.0.2/8", "10.0.0.3/8", "10.0.0.4/8">>
HostIP(h) == HostIPs[CHOOSE i \in 1..Len(HostNames) : HostNames[i] = h]

None == << >>
Some(v) == <<v>>

(* The keyword parameters a call of config() may get: with or without the  *)
(* key 'vlan', and with vlan=None.  The key 'ip' is always there: it is    *)
(* the host's own IP/prefix, which line 57 requires.                       *)
ParamSets(h) ==
    {[ip |-> HostIP(h)]}
    \cup {[ip |-> HostIP(h), vlan |-> o] : o \in {None} \cup {Some(v) : v \in VlanIds}}

(* ------------------------ the host's namespace ------------------------- *)
NoVlanName(name, vlan) == name
\* f'{intf}.{vlan}'
VlanName(name, vlan) == Append(name, vlan)

PhysName(h, port) == <<h, port>>
Ports == <<"eth0", "eth1">>
\* Host.defaultIntf(): the Intf object of the lowest port
defaultIntf(h) == Ports[1]

Device(addrs, up, link, vid) == [addrs |-> addrs, up |-> up, link |-> link, vid |-> vid]

\* ip address del P dev I
IpAddrDel(nsH, p, dev) ==
    IF dev \in DOMAIN nsH /\ p \in nsH[dev].addrs
    THEN [ns |-> [nsH EXCEPT ![dev].addrs = @ \ {p}], ok |-> TRUE]
    ELSE [ns |-> nsH, ok |-> FALSE]

\* ip link add link I name N type vlan id V
IpLinkAddVlan(nsH, link, name, vid) ==
    IF /\ link \in DOMAIN nsH
       /\ name \notin DOMAIN nsH
       /\ \A d \in DOMAIN nsH : ~(nsH[d].link = link /\ nsH[d].vid = Some(vid))
    THEN [ns |-> [d \in DOMAIN nsH \cup {name} |->
                    IF d = name THEN Device({}, FALSE, link, Some(vid)) ELSE nsH[d]],
          ok |-> TRUE]
    ELSE [ns |-> nsH, ok |-> FALSE]

\* ip address add P dev N
IpAddrAdd(nsH, p, dev) ==
    IF dev \in DOMAIN nsH /\ p \notin nsH[dev].addrs
    THEN [ns |-> [nsH EXCEPT ![dev].addrs = @ \cup {p}], ok |-> TRUE]
    ELSE [ns |-> nsH, ok |-> FALSE]

\* ip link set up dev N
IpLinkSetUp(nsH, dev) ==
    IF dev \in DOMAIN nsH
    THEN [ns |-> [nsH EXCEPT ![dev].up = TRUE], ok |-> TRUE]
    ELSE [ns |-> nsH, ok |-> FALSE]

\* ifconfig I P up (the generic configuration step's setIP)
Ifconfig(nsH, dev, p) ==
    IF dev \in DOMAIN nsH
    THEN [ns |-> [nsH EXCEPT ![dev].addrs = {p}, ![dev].up = TRUE], ok |-> TRUE]
    ELSE [ns |-> nsH, ok |-> FALSE]

(* The four command lines of config() and the generic step's, as tokens.   *)
CmdSuper(name, p) == <<"ifconfig", name, p, "up">>
CmdDel(p, name) == <<"ip", "address", "del", p, "dev", name>>
CmdLink(name, new, vlan) ==
    <<"ip", "link", "add", "link", name, "name", new, "type", "vlan", "id", vlan>>
CmdAdd(p, new) == <<"ip", "address", "add", p, "dev", new>>
CmdUp(new) == <<"ip", "link", "set", "up", "dev", new>>

\* what a command line does in a namespace
KernelExec(nsH, c) ==
    CASE c[1] = "ifconfig" -> Ifconfig(nsH, c[2], c[3])
      [] c[1] = "ip" /\ c[2] = "address" /\ c[3] = "del" -> IpAddrDel(nsH, c[4], c[6])
      [] c[1] = "ip" /\ c[2] = "address" /\ c[3] = "add" -> IpAddrAdd(nsH, c[4], c[6])
      [] c[1] = "ip" /\ c[2] = "link" /\ c[3] = "add" -> IpLinkAddVlan(nsH, c[5], c[7], c[11])
      [] c[1] = "ip" /\ c[2] = "link" /\ c[3] = "set" -> IpLinkSetUp(nsH, c[6])

\* the outcome of a command under the environment: a fault makes it fail
Outcome(nsH, c, fault) ==
    IF fault THEN [ns |-> nsH, ok |-> FALSE] ELSE KernelExec(nsH, c)

Entry(c, ok) == [cmd |-> c, ok |-> ok]

\* a command run in the namespace of the first host, whatever host runs it
cmdShared(h, c, fault) ==
    LET r == Outcome(ns[HostNames[1]], c, fault)
    IN  /\ fault => faults < MaxFaults
        /\ ns' = [ns EXCEPT ![HostNames[1]] = r.ns]
        /\ log' = [log EXCEPT ![h] = Append(@, Entry(c, r.ok))]
        /\ faults' = faults + (IF fault THEN 1 ELSE 0)
        /\ hist' = [hist EXCEPT ![h][Len(hist[h])].faults = Append(@, fault)]

\* self.cmd( c ): runs c in the host's own namespace, synchronously
cmd(h, c, fault) ==
    LET r == Outcome(ns[h], c, fault)
    IN  /\ fault => faults < MaxFaults
        /\ ns' = [ns EXCEPT ![h] = r.ns]
        /\ log' = [log EXCEPT ![h] = Append(@, Entry(c, r.ok))]
        /\ faults' = faults + (IF fault THEN 1 ELSE 0)
        /\ hist' = [hist EXCEPT ![h][Len(hist[h])].faults = Append(@, fault)]

(* ---------------------------- VLANHost.config -------------------------- *)
\* params.pop('vlan', None)
PopVlan(params) == IF "vlan" \in DOMAIN params THEN params.vlan ELSE None

NoLocals == [vlan |-> 0, ip |-> "", intf |-> Ports[1], new_intf |-> << >>]

\* the host as the framework hands it over: two interfaces, the default one
\* (the lowest port) carrying the host's IP
InitNs(h) ==
    [d \in {PhysName(h, Ports[1]), PhysName(h, Ports[2])} |->
        IF d = PhysName(h, Ports[1])
        THEN Device({HostIP(h)}, TRUE, None, None)
        ELSE Device({}, FALSE, None, None)]
InitIntf(h) == [o \in {Ports[1], Ports[2]} |-> [name |-> PhysName(h, o)]]
InitNameToIntf(h) == [d \in {PhysName(h, Ports[1]), PhysName(h, Ports[2])} |-> d[2]]

InitHost ==
    /\ pc = [h \in Hosts |-> "idle"]
    /\ ns = [h \in Hosts |-> InitNs(h)]
    /\ intf = [h \in Hosts |-> InitIntf(h)]
    /\ nameToIntf = [h \in Hosts |-> InitNameToIntf(h)]
    /\ log = [h \in Hosts |-> << >>]
    /\ result = [h \in Hosts |-> "none"]
    /\ cur = [h \in Hosts |-> NoLocals]
    /\ hist = [h \in Hosts |-> << >>]
    /\ calls = 0
    /\ faults = 0

\* the record of a call: its parameters, the default interface's name and
\* the length of the log when it began, the faults of its commands
Call(h, params) ==
    [params |-> params, name |-> intf[h][defaultIntf(h)].name,
     at |-> Len(log[h]), faults |-> << >>]

\* the generic step runs before the assertion
ConfigSuperFirst(h, params) ==
    /\ pc[h] = "idle"
    /\ calls < MaxCalls
    /\ calls' = calls + 1
    /\ hist' = [hist EXCEPT ![h] = Append(@, Call(h, params))]
    /\ IF PopVlan(params) = None
       THEN /\ result' = [result EXCEPT ![h] = "AssertionError"]
            /\ log' = [log EXCEPT ![h] =
                   Append(@, Entry(CmdSuper(intf[h][defaultIntf(h)].name, params.ip), TRUE))]
            /\ UNCHANGED <<pc, ns, intf, nameToIntf, cur, faults>>
       ELSE /\ pc' = [pc EXCEPT ![h] = "super"]
            /\ result' = [result EXCEPT ![h] = "running"]
            /\ cur' = [cur EXCEPT ![h] = [NoLocals EXCEPT !.vlan = PopVlan(params)[1],
                                                          !.ip = params.ip]]
            /\ UNCHANGED <<ns, intf, nameToIntf, log, faults>>
    /\ UNCHANGED topoVars

\* lines 48-53: the call, the pop and the assertion
Config(h, params) ==
    /\ pc[h] = "idle"
    /\ calls < MaxCalls
    /\ calls' = calls + 1
    /\ hist' = [hist EXCEPT ![h] = Append(@, Call(h, params))]
    /\ IF PopVlan(params) = None
       THEN /\ result' = [result EXCEPT ![h] = "AssertionError"]
            /\ UNCHANGED <<pc, ns, intf, nameToIntf, log, cur, faults>>
       ELSE /\ pc' = [pc EXCEPT ![h] = "super"]
            /\ result' = [result EXCEPT ![h] = "running"]
            /\ cur' = [cur EXCEPT ![h] = [NoLocals EXCEPT !.vlan = PopVlan(params)[1],
                                                          !.ip = params.ip]]
            /\ UNCHANGED <<ns, intf, nameToIntf, log, faults>>
    /\ UNCHANGED topoVars

\* line 54: r = super().config(**params), the generic configuration step
SuperConfig(h) ==
    /\ pc[h] = "super"
    /\ cmd(h, CmdSuper(intf[h][defaultIntf(h)].name, cur[h].ip), FALSE)
    /\ pc' = [pc EXCEPT ![h] = "del"]
    /\ UNCHANGED <<intf, nameToIntf, result, cur, calls>>
    /\ UNCHANGED topoVars

\* the command's outcome checked: the call gives up when it fails
DelAddrChecked(h, fault) ==
    /\ pc[h] = "del"
    /\ LET o == defaultIntf(h)
           name == intf[h][o].name
       IN  /\ cur' = [cur EXCEPT ![h].intf = o,
                                 ![h].new_intf = VlanName(name, cur[h].vlan)]
           /\ cmd(h, CmdDel(cur[h].ip, name), fault)
           /\ pc' = [pc EXCEPT ![h] =
                  IF Outcome(ns[h], CmdDel(cur[h].ip, name), fault).ok
                  THEN "link" ELSE "return"]
    /\ UNCHANGED <<intf, nameToIntf, result, calls>>
    /\ UNCHANGED topoVars

\* lines 56-60: the locals, and the IP removed from the default interface
DelAddr(h, fault) ==
    /\ pc[h] = "del"
    /\ LET o == defaultIntf(h)
           name == intf[h][o].name
       IN  /\ cur' = [cur EXCEPT ![h].intf = o,
                                 ![h].new_intf = VlanName(name, cur[h].vlan)]
           /\ cmd(h, CmdDel(cur[h].ip, name), fault)
    /\ pc' = [pc EXCEPT ![h] = "link"]
    /\ UNCHANGED <<intf, nameToIntf, result, calls>>
    /\ UNCHANGED topoVars

\* line 62: the VLAN interface created
AddLink(h, fault) ==
    /\ pc[h] = "link"
    /\ cmd(h, CmdLink(intf[h][cur[h].intf].name, cur[h].new_intf, cur[h].vlan), fault)
    /\ pc' = [pc EXCEPT ![h] = "addr"]
    /\ UNCHANGED <<intf, nameToIntf, result, cur, calls>>
    /\ UNCHANGED topoVars

\* the IP given back to the interface it was taken from
AddAddrOld(h, fault) ==
    /\ pc[h] = "addr"
    /\ cmd(h, CmdAdd(cur[h].ip, intf[h][cur[h].intf].name), fault)
    /\ pc' = [pc EXCEPT ![h] = "up"]
    /\ UNCHANGED <<intf, nameToIntf, result, cur, calls>>
    /\ UNCHANGED topoVars

\* line 64: the host's IP assigned to the VLAN interface
AddAddr(h, fault) ==
    /\ pc[h] = "addr"
    /\ cmd(h, CmdAdd(cur[h].ip, cur[h].new_intf), fault)
    /\ pc' = [pc EXCEPT ![h] = "up"]
    /\ UNCHANGED <<intf, nameToIntf, result, cur, calls>>
    /\ UNCHANGED topoVars

\* the interface the VLAN is on set up, not the VLAN interface
SetUpOld(h, fault) ==
    /\ pc[h] = "up"
    /\ cmd(h, CmdUp(intf[h][cur[h].intf].name), fault)
    /\ pc' = [pc EXCEPT ![h] = "rename"]
    /\ UNCHANGED <<intf, nameToIntf, result, cur, calls>>
    /\ UNCHANGED topoVars

\* line 65: the VLAN interface set up
SetUp(h, fault) ==
    /\ pc[h] = "up"
    /\ cmd(h, CmdUp(cur[h].new_intf), fault)
    /\ pc' = [pc EXCEPT ![h] = "rename"]
    /\ UNCHANGED <<intf, nameToIntf, result, cur, calls>>
    /\ UNCHANGED topoVars

\* the Intf object keeps its name
RenameNoop(h) ==
    /\ pc[h] = "rename"
    /\ pc' = [pc EXCEPT ![h] = "register"]
    /\ UNCHANGED <<ns, intf, nameToIntf, log, result, cur, hist, calls, faults>>
    /\ UNCHANGED topoVars

\* line 67: intf.name = new_intf
Rename(h) ==
    /\ pc[h] = "rename"
    /\ intf' = [intf EXCEPT ![h][cur[h].intf].name = cur[h].new_intf]
    /\ pc' = [pc EXCEPT ![h] = "register"]
    /\ UNCHANGED <<ns, nameToIntf, log, result, cur, hist, calls, faults>>
    /\ UNCHANGED topoVars

\* the table of the first host written, whatever host registers
RegisterShared(h) ==
    /\ pc[h] = "register"
    /\ nameToIntf' = [nameToIntf EXCEPT ![HostNames[1]] =
           [d \in DOMAIN @ \cup {cur[h].new_intf} |->
               IF d = cur[h].new_intf THEN cur[h].intf ELSE @[d]]]
    /\ pc' = [pc EXCEPT ![h] = "return"]
    /\ UNCHANGED <<ns, intf, log, result, cur, hist, calls, faults>>
    /\ UNCHANGED topoVars

\* the table's other keys of the same object dropped
RegisterRebind(h) ==
    /\ pc[h] = "register"
    /\ nameToIntf' = [nameToIntf EXCEPT ![h] =
           [d \in {e \in DOMAIN @ : @[e] # cur[h].intf} \cup {cur[h].new_intf} |->
               IF d = cur[h].new_intf THEN cur[h].intf ELSE @[d]]]
    /\ pc' = [pc EXCEPT ![h] = "return"]
    /\ UNCHANGED <<ns, intf, log, result, cur, hist, calls, faults>>
    /\ UNCHANGED topoVars

\* line 69: self.nameToIntf[ new_intf ] = intf
Register(h) ==
    /\ pc[h] = "register"
    /\ nameToIntf' = [nameToIntf EXCEPT ![h] =
           [d \in DOMAIN @ \cup {cur[h].new_intf} |->
               IF d = cur[h].new_intf THEN cur[h].intf ELSE @[d]]]
    /\ pc' = [pc EXCEPT ![h] = "return"]
    /\ UNCHANGED <<ns, intf, log, result, cur, hist, calls, faults>>
    /\ UNCHANGED topoVars

\* line 71: return r
Return(h) ==
    /\ pc[h] = "return"
    /\ pc' = [pc EXCEPT ![h] = "idle"]
    /\ result' = [result EXCEPT ![h] = "returned"]
    /\ UNCHANGED <<ns, intf, nameToIntf, log, cur, hist, calls, faults>>
    /\ UNCHANGED topoVars

(* config() run from its call to its return on one host, with nothing else *)
(* running in between: the state the host reaches when the hosts are       *)
(* configured one after another.                                           *)
RECURSIVE RunCmds(_, _, _, _)
RunCmds(st, cs, fs, i) ==
    IF i > Len(cs) THEN st
    ELSE LET r == Outcome(st.ns, cs[i], fs[i])
         IN  RunCmds([ns |-> r.ns, log |-> Append(st.log, Entry(cs[i], r.ok))],
                     cs, fs, i + 1)

RunConfig(s, h, c) ==
    IF PopVlan(c.params) = None THEN s
    ELSE LET o == defaultIntf(h)
             I == s.intf[o].name
             V == PopVlan(c.params)[1]
             P == c.params.ip
             N == VlanName(I, V)
             r == RunCmds([ns |-> s.ns, log |-> s.log],
                          <<CmdSuper(I, P), CmdDel(P, I), CmdLink(I, N, V),
                            CmdAdd(P, N), CmdUp(N)>>,
                          c.faults, 1)
         IN  [ns |-> r.ns,
              log |-> r.log,
              intf |-> [s.intf EXCEPT ![o].name = N],
              nameToIntf |-> [d \in DOMAIN s.nameToIntf \cup {N} |->
                                 IF d = N THEN o ELSE s.nameToIntf[d]]]

RECURSIVE RunAll(_, _, _, _)
RunAll(s, h, cs, i) ==
    IF i > Len(cs) THEN s ELSE RunAll(RunConfig(s, h, cs[i]), h, cs, i + 1)

(* ---------------------------- VLANStarTopo.build ----------------------- *)
VlanBases == {-1, 0, 9, 100}

Digits == <<"0", "1", "2", "3", "4", "5", "6", "7", "8", "9">>

\* str(i) of a natural number, digit by digit
RECURSIVE NatStr(_)
NatStr(i) == IF i < 10 THEN <<Digits[i + 1]>>
             ELSE Append(NatStr(i \div 10), Digits[(i % 10) + 1])

\* the text an f-string gives an integer
IntStr(i) == IF i < 0 THEN <<"-">> \o NatStr(-i) ELSE NatStr(i)

\* f'h{j+1}'
UntaggedName(j) == <<"h">> \o IntStr(j + 1)

TaggedNameNoVlan(j, vlan) == UntaggedName(j)
\* f'h{j+1}-{vlan}'
TaggedName(j, vlan) == <<"h">> \o IntStr(j + 1) \o <<"-">> \o IntStr(vlan)

rangeAbs(m) == 0..((IF m < 0 THEN -m ELSE m) - 1)
\* range( m )
range(m) == 0..(m - 1)

\* Topo.addHost( name, **opts ) and Topo.addLink( name, 's1' )
addHostAndLink(name, opts) ==
    /\ thosts' = [d \in DOMAIN thosts \cup {name} |-> IF d = name THEN opts ELSE thosts[d]]
    /\ tlinks' = Append(tlinks, [node1 |-> name, node2 |-> "s1"])

InitTopoIdle ==
    /\ tpc = "off"
    /\ targs = [k |-> 0, n |-> 0, vlanBase |-> 0]
    /\ ti = 0
    /\ tj = 0
    /\ thosts = << >>
    /\ tswitches = {}
    /\ tlinks = << >>

\* the call build( k, n, vlanBase ) on an empty Topo
InitTopo ==
    /\ tpc = "switch"
    /\ targs \in [k : -1..MaxK, n : -1..MaxN, vlanBase : VlanBases]
    /\ ti = 0
    /\ tj = 0
    /\ thosts = << >>
    /\ tswitches = {}
    /\ tlinks = << >>

\* line 101: s1 = self.addSwitch( 's1' )
AddSwitch ==
    /\ tpc = "switch"
    /\ tswitches' = tswitches \cup {"s1"}
    /\ ti' = 0
    /\ tpc' = "outer"
    /\ UNCHANGED <<targs, tj, thosts, tlinks>>
    /\ UNCHANGED hostVars

\* lines 102-103: for i in range( k )
OuterLoop ==
    /\ tpc = "outer"
    /\ tj' = 0
    /\ tpc' = IF ti \in range(targs.k) THEN "inner" ELSE "untagged"
    /\ UNCHANGED <<targs, ti, thosts, tswitches, tlinks>>
    /\ UNCHANGED hostVars

\* every group tagged vlanBase
InnerLoopSameVlan ==
    /\ tpc = "inner"
    /\ IF tj \in range(targs.n)
       THEN /\ addHostAndLink(TaggedName(tj, targs.vlanBase),
                              [cls |-> "VLANHost", vlan |-> targs.vlanBase])
            /\ tj' = tj + 1
            /\ UNCHANGED <<tpc, ti>>
       ELSE /\ ti' = ti + 1
            /\ tpc' = "outer"
            /\ UNCHANGED <<tj, thosts, tlinks>>
    /\ UNCHANGED <<targs, tswitches>>
    /\ UNCHANGED hostVars

\* lines 103-107: vlan = vlanBase + i; for j in range( n ): the tagged host
InnerLoop ==
    /\ tpc = "inner"
    /\ IF tj \in range(targs.n)
       THEN /\ addHostAndLink(TaggedName(tj, targs.vlanBase + ti),
                              [cls |-> "VLANHost", vlan |-> targs.vlanBase + ti])
            /\ tj' = tj + 1
            /\ UNCHANGED <<tpc, ti>>
       ELSE /\ ti' = ti + 1
            /\ tpc' = "outer"
            /\ UNCHANGED <<tj, thosts, tlinks>>
    /\ UNCHANGED <<targs, tswitches>>
    /\ UNCHANGED hostVars

\* lines 108-110: for j in range( n ): the untagged host
UntaggedLoop ==
    /\ tpc = "untagged"
    /\ IF tj \in range(targs.n)
       THEN /\ addHostAndLink(UntaggedName(tj), [cls |-> "Host"])
            /\ tj' = tj + 1
            /\ UNCHANGED tpc
       ELSE /\ tpc' = "done"
            /\ UNCHANGED <<tj, thosts, tlinks>>
    /\ UNCHANGED <<targs, ti, tswitches>>
    /\ UNCHANGED hostVars

TopoInit == InitHost /\ InitTopo

TopoNext == AddSwitch \/ OuterLoop \/ InnerLoop \/ UntaggedLoop

TopoSpec == TopoInit /\ [][TopoNext]_vars

Init == InitHost /\ InitTopoIdle

Next ==
    \/ \E h \in Hosts : \E params \in ParamSets(h) : Config(h, params)
    \/ \E h \in Hosts : SuperConfig(h)
    \/ \E h \in Hosts, fault \in BOOLEAN : DelAddr(h, fault)
    \/ \E h \in Hosts, fault \in BOOLEAN : AddLink(h, fault)
    \/ \E h \in Hosts, fault \in BOOLEAN : AddAddr(h, fault)
    \/ \E h \in Hosts, fault \in BOOLEAN : SetUp(h, fault)
    \/ \E h \in Hosts : Rename(h)
    \/ \E h \in Hosts : Register(h)
    \/ \E h \in Hosts : Return(h)

Spec == Init /\ [][Next]_vars

(* ------------------------------- claims -------------------------------- *)
Valid(c) == PopVlan(c.params) # None
LastCall(h) == hist[h][Len(hist[h])]
InCall(h) == hist[h] # << >> /\ Valid(LastCall(h))
ValidCalls(h) == SelectSeq(hist[h], Valid)
\* the commands of call c, the last call of h
Issued(h, c) == [i \in 1..(Len(log[h]) - c.at) |-> log[h][c.at + i]]
AllOk(es) == \A i \in 1..Len(es) : es[i].ok
Completed(h) == pc[h] = "idle" /\ result[h] = "returned"
DefaultName(h) == intf[h][defaultIntf(h)].name
Dotted(I, V) == Append(I, V)

\* C1: after a completed config(vlan=V, ip=P) whose commands all succeeded, on
\* a host whose default interface was named I, defaultIntf() is named I.V,
\* that interface is up in the namespace and nameToIntf has the key I.V.
C1_Retagged ==
    \A h \in Hosts :
        (Completed(h) /\ AllOk(Issued(h, LastCall(h)))) =>
            LET new == Dotted(LastCall(h).name, LastCall(h).params.vlan[1])
            IN  /\ DefaultName(h) = new
                /\ new \in DOMAIN ns[h]
                /\ ns[h][new].up
                /\ new \in DOMAIN nameToIntf[h]

C1_Witness ==
    \E h \in Hosts :
        /\ Completed(h)
        /\ AllOk(Issued(h, LastCall(h)))
        /\ Len(Issued(h, LastCall(h))) = 5
        /\ LastCall(h).name = PhysName(h, "eth0")

Expected(I, V, P) ==
    << <<"ifconfig", I, P, "up">>,
       <<"ip", "address", "del", P, "dev", I>>,
       <<"ip", "link", "add", "link", I, "name", Dotted(I, V), "type", "vlan", "id", V>>,
       <<"ip", "address", "add", P, "dev", Dotted(I, V)>>,
       <<"ip", "link", "set", "up", "dev", Dotted(I, V)>> >>

\* how many of them a call at pc has issued
Progress(p) ==
    CASE p = "super" -> 0
      [] p = "del" -> 1
      [] p = "link" -> 2
      [] p = "addr" -> 3
      [] p = "up" -> 4
      [] OTHER -> 5

\* C3: a call with V, P and default interface I issues, after the generic
\* step, the four commands in their order whatever the outcome of each; the
\* interface is renamed I.V only after the fourth, and I.V is registered in
\* nameToIntf only after the rename.
C3_FourCommandsInOrder ==
    \A h \in Hosts :
        InCall(h) =>
            LET c == LastCall(h)
                I == c.name
                V == c.params.vlan[1]
                es == Issued(h, c)
            IN  /\ [i \in 1..Len(es) |-> es[i].cmd]
                     = SubSeq(Expected(I, V, c.params.ip), 1, Progress(pc[h]))
                /\ pc[h] \in {"super", "del", "link", "addr", "up", "rename"}
                     => DefaultName(h) = I /\ Dotted(I, V) \notin DOMAIN nameToIntf[h]
                /\ pc[h] = "register"
                     => DefaultName(h) = Dotted(I, V)
                        /\ Dotted(I, V) \notin DOMAIN nameToIntf[h]
                /\ pc[h] \in {"return", "idle"}
                     => DefaultName(h) = Dotted(I, V)
                        /\ Dotted(I, V) \in DOMAIN nameToIntf[h]

C3_Witness ==
    \E h \in Hosts :
        /\ InCall(h)
        /\ Completed(h)
        /\ Len(Issued(h, LastCall(h))) = 5
        /\ ~Issued(h, LastCall(h))[3].ok
        /\ ~Issued(h, LastCall(h))[4].ok

\* the 'create interface' entry of call c in the log of h
Create(h, c) == log[h][c.at + 3]
TwiceSameVlan(h) ==
    /\ Len(ValidCalls(h)) >= 2
    /\ ValidCalls(h)[Len(ValidCalls(h)) - 1].params.vlan
         = ValidCalls(h)[Len(ValidCalls(h))].params.vlan
First(h) == ValidCalls(h)[Len(ValidCalls(h)) - 1]
Second(h) == ValidCalls(h)[Len(ValidCalls(h))]

\* C5 as stated: the second invocation with the same VLAN id asks to create
\* the name the first invocation created, and that creation fails.
C5_SecondCreateIsDuplicate ==
    \A h \in Hosts :
        (/\ TwiceSameVlan(h)
         /\ Len(log[h]) >= Second(h).at + 3
         /\ Create(h, First(h)).ok)
        => /\ Create(h, Second(h)).cmd[7] = Create(h, First(h)).cmd[7]
           /\ ~Create(h, Second(h)).ok

\* C5 amended: config is not idempotent, but the second invocation with the
\* same VLAN id V asks to create I.V.V on I.V, a name the first invocation
\* did not create and the namespace does not hold when it is asked for; the
\* completed second call leaves the default interface named I.V.V.
C5_SecondCreateIsNew ==
    \A h \in Hosts :
        TwiceSameVlan(h) =>
            LET I == First(h).name
                V == First(h).params.vlan[1]
            IN  /\ Second(h).name = Dotted(I, V)
                /\ pc[h] = "link" /\ LastCall(h) = Second(h)
                     => cur[h].new_intf \notin DOMAIN ns[h]
                /\ Len(log[h]) >= Second(h).at + 3
                     => /\ Create(h, Second(h)).cmd[5] = Dotted(I, V)
                        /\ Create(h, Second(h)).cmd[7] = Dotted(Dotted(I, V), V)
                        /\ Create(h, Second(h)).cmd[7] # Create(h, First(h)).cmd[7]
                /\ Completed(h) /\ LastCall(h) = Second(h)
                     => DefaultName(h) = Dotted(Dotted(I, V), V)

C5_Witness ==
    \E h \in Hosts :
        /\ TwiceSameVlan(h)
        /\ Completed(h)
        /\ LastCall(h) = Second(h)
        /\ Create(h, First(h)).ok
        /\ Create(h, Second(h)).ok

\* C7 as stated: in every reachable state the default interface's name is an
\* interface of the namespace that carries the host's IP.
C7_DefaultAlwaysLive ==
    \A h \in Hosts :
        /\ DefaultName(h) \in DOMAIN ns[h]
        /\ HostIP(h) \in ns[h][DefaultName(h)].addrs

\* C7 amended: once the generic step of a call has succeeded and until its
\* first command runs, and after a completed call whose commands all
\* succeeded, the default interface's name is an interface of the namespace
\* that carries the host's IP: I (the physical interface on a first call)
\* before the retagging, I.V after it.
C7_DefaultLiveWhenSettled ==
    \A h \in Hosts :
        /\ (pc[h] = "del" /\ AllOk(Issued(h, LastCall(h))))
             => /\ DefaultName(h) = LastCall(h).name
                /\ Len(ValidCalls(h)) = 1 => DefaultName(h) = PhysName(h, "eth0")
                /\ DefaultName(h) \in DOMAIN ns[h]
                /\ HostIP(h) \in ns[h][DefaultName(h)].addrs
        /\ (Completed(h) /\ AllOk(Issued(h, LastCall(h))))
             => /\ DefaultName(h) = Dotted(LastCall(h).name, LastCall(h).params.vlan[1])
                /\ DefaultName(h) \in DOMAIN ns[h]
                /\ HostIP(h) \in ns[h][DefaultName(h)].addrs
                /\ HostIP(h) \notin ns[h][LastCall(h).name].addrs

C7_Witness ==
    \E h \in Hosts :
        /\ Completed(h)
        /\ AllOk(Issued(h, LastCall(h)))
        /\ Len(ValidCalls(h)) = 2
        /\ HostIP(h) \in ns[h][DefaultName(h)].addrs

\* C10: config only adds to nameToIntf: no step removes or rebinds a key, the
\* only key a step adds is the new name; after a completed call on a host
\* whose default interface was registered under I, the keys I and I.V map to
\* the same Intf object, whose name is I.V and no longer I.
C10_RegisterOnlyAdds ==
    /\ [][\A h \in Hosts :
            /\ \A d \in DOMAIN nameToIntf[h] :
                  d \in DOMAIN nameToIntf'[h] /\ nameToIntf'[h][d] = nameToIntf[h][d]
            /\ DOMAIN nameToIntf'[h] \subseteq DOMAIN nameToIntf[h] \cup {cur[h].new_intf}]_vars
    /\ [](\A h \in Hosts :
            Completed(h) =>
                LET I == LastCall(h).name
                    new == Dotted(I, LastCall(h).params.vlan[1])
                IN  /\ I \in DOMAIN nameToIntf[h]
                    /\ new \in DOMAIN nameToIntf[h]
                    /\ nameToIntf[h][I] = nameToIntf[h][new]
                    /\ intf[h][nameToIntf[h][I]].name = new
                    /\ new # I
                    /\ PhysName(h, "eth1") \in DOMAIN nameToIntf[h]
                    /\ nameToIntf[h][PhysName(h, "eth1")] = "eth1")

C10_Witness ==
    \E h \in Hosts :
        /\ Completed(h)
        /\ Len(ValidCalls(h)) = 2
        /\ Cardinality(DOMAIN nameToIntf[h]) = 4

\* what belongs to host h
HostState(h) ==
    [ns |-> ns[h], log |-> log[h], intf |-> intf[h], nameToIntf |-> nameToIntf[h]]
HostAll(h) == <<pc[h], result[h], cur[h], hist[h], HostState(h)>>
Sequential(h) ==
    RunAll([ns |-> InitNs(h), log |-> << >>, intf |-> InitIntf(h),
            nameToIntf |-> InitNameToIntf(h)], h, hist[h], 1)

\* C8: with the steps of several hosts' config calls interleaved, a step of
\* one host changes nothing of another host, and a host between calls is in
\* the state its calls give when run alone, one after another.
C8_HostsIndependent ==
    /\ [][\A a \in Hosts : \A b \in Hosts \ {a} :
            HostAll(a)' # HostAll(a) => HostAll(b)' = HostAll(b)]_vars
    /\ [](\A h \in Hosts : pc[h] = "idle" => HostState(h) = Sequential(h))

C8_Witness ==
    \E a \in Hosts : \E b \in Hosts \ {a} :
        /\ Completed(a)
        /\ Completed(b)
        /\ ~AllOk(log[a])
        /\ AllOk(log[b])

(* ----------------------- claims: VLANStarTopo.build --------------------- *)
Tagged == {d \in DOMAIN thosts : "vlan" \in DOMAIN thosts[d]}
LinkCount(d) == Cardinality({l \in 1..Len(tlinks) : tlinks[l].node1 = d})

\* C4: for k > 0 and n > 0, build gives the one switch s1, k*n + n hosts and
\* k*n + n links, each link from a host to s1 and each host on one link; k*n
\* hosts are tagged, n of them with vlanBase + i for each i in [0, k), named
\* h{j+1}-{vlanBase+i}; the other n are untagged and named h{j+1}.  With
\* k=2, n=2, vlanBase=100 the hosts are h1-100, h2-100, h1-101, h2-101, h1, h2.
C4_StarShape ==
    (tpc = "done" /\ targs.k > 0 /\ targs.n > 0) =>
        LET k == targs.k
            n == targs.n
            b == targs.vlanBase
        IN  /\ tswitches = {"s1"}
            /\ Cardinality(DOMAIN thosts) = k * n + n
            /\ Len(tlinks) = k * n + n
            /\ \A l \in 1..Len(tlinks) :
                  tlinks[l].node2 = "s1" /\ tlinks[l].node1 \in DOMAIN thosts
            /\ \A d \in DOMAIN thosts : LinkCount(d) = 1
            /\ Cardinality(Tagged) = k * n
            /\ \A i \in 0..(k - 1) :
                  LET g == {d \in Tagged : thosts[d].vlan = b + i}
                  IN  /\ Cardinality(g) = n
                      /\ g = {<<"h">> \o IntStr(j + 1) \o <<"-">> \o IntStr(b + i) :
                                j \in 0..(n - 1)}
            /\ DOMAIN thosts \ Tagged = {<<"h">> \o IntStr(j + 1) : j \in 0..(n - 1)}
            /\ (k = 2 /\ n = 2 /\ b = 100) =>
                  DOMAIN thosts = { <<"h", "1", "-", "1", "0", "0">>,
                                    <<"h", "2", "-", "1", "0", "0">>,
                                    <<"h", "1", "-", "1", "0", "1">>,
                                    <<"h", "2", "-", "1", "0", "1">>,
                                    <<"h", "1">>, <<"h", "2">> }

C4_Witness ==
    /\ tpc = "done"
    /\ targs = [k |-> 2, n |-> 2, vlanBase |-> 100]
    /\ Len(tlinks) = 6

\* C6 as stated: with k or n negative, build gives no hosts and no links.
C6_NegativeGivesEmpty ==
    (tpc = "done" /\ (targs.k < 0 \/ targs.n < 0)) =>
        DOMAIN thosts = {} /\ tlinks = << >>

\* C6 amended: with k or n negative, build raises no error and gives no
\* tagged host; it gives the switch and the max(n, 0) untagged hosts with
\* their links, so the topology has no hosts and no links only when n <= 0.
C6_NegativeGivesNoTagged ==
    (targs.k < 0 \/ targs.n < 0) =>
        /\ tpc # "done" => ENABLED TopoNext
        /\ Tagged = {}
        /\ tpc = "done" =>
              /\ tswitches = {"s1"}
              /\ DOMAIN thosts = {<<"h">> \o IntStr(j + 1) : j \in 0..(targs.n - 1)}
              /\ Cardinality(DOMAIN thosts) = (IF targs.n > 0 THEN targs.n ELSE 0)
              /\ Len(tlinks) = Cardinality(DOMAIN thosts)
              /\ targs.n < 0 => DOMAIN thosts = {} /\ tlinks = << >>

C6_Witness ==
    /\ tpc = "done"
    /\ targs.k < 0
    /\ targs.n = 2
    /\ DOMAIN thosts = {<<"h", "1">>, <<"h", "2">>}
    /\ Len(tlinks) = 2

\* C9: the names one build call gives its hosts are pairwise distinct: no two
\* addHost calls get the same name, tagged or untagged.
C9_NamesDistinct ==
    /\ \A l1 \in 1..Len(tlinks) : \A l2 \in 1..Len(tlinks) :
          l1 # l2 => tlinks[l1].node1 # tlinks[l2].node1
    /\ Cardinality(DOMAIN thosts) = Len(tlinks)

C9_Witness ==
    /\ tpc = "done"
    /\ targs = [k |-> 2, n |-> 2, vlanBase |-> 9]
    /\ <<"h", "1", "-", "9">> \in DOMAIN thosts
    /\ <<"h", "1", "-", "1", "0">> \in DOMAIN thosts
    /\ <<"h", "1">> \in DOMAIN thosts

====
